---- MODULE Spec2Model ----
(***************************************************************************)
(* Model of loader.py: the user interface of the precision sample          *)
(* dispenser.  ArduinoLink (serial link, trace window, log file, idle      *)
(* timer), LoaderControl, MotorControl, LoginControl, AppControl and       *)
(* TraceControl are modelled handler by handler.                           *)
(*                                                                         *)
(* Python values: an optional value (None or v) is the sequence <<>> or    *)
(* <<v>>; str is a TLA+ string, + on str is \o; a Tk widget group's state  *)
(* is the BOOLEAN "every child is 'normal'".                               *)
(***************************************************************************)
EXTENDS Integers, Sequences, FiniteSets, TLC

VARIABLES
    debug,              \* ArduinoLink._debug (RunTimeConfig --debug)
    loaderEnabled,      \* state of the children of LoaderControl._lfrm
    m1Enabled,          \* state of the children of MotorControl(1)._lfrm
    m2Enabled,          \* state of the children of MotorControl(2)._lfrm
    timer,              \* ArduinoLink._timer
    timerActive,        \* ArduinoLink._timerActive
    cboxCurrent,        \* LoaderControl._cbox.current(): the index of the combo
                        \* box's text among its values, -1 when it is no label
    operVar,            \* LoginControl._operVar
    accessionVar,       \* LoginControl._accessionVar
    accessionConfVar,   \* LoginControl._accessionConfVar
    sampleVar,          \* LoginControl._sampleVar
    sampleConfVar,      \* LoginControl._sampleConfVar
    entryState,         \* state of the five Entry widgets of LoginControl
    arrivalTime,        \* LoginControl._arrivalTime
    logFile,            \* the lines of the file _logFileName
    traceText,          \* the inserts held by TraceControl._textwidget
    wire,               \* what _conn.write has put on the serial line
    inWaiting,          \* bytes the arduino has written, not yet read, in order
    committed,          \* history: the last of Save/Edit/Clear was a Save that passed
    editPending,        \* history: Edit was clicked and no Save has passed since
    goSeconds,          \* history: the "time" of the profile of the last SetTimer
    ticksSinceGo,       \* history: Ticks counted by the timer since the last SetTimer
    goUndisturbed,      \* history: a countdown is running that Go started for the
                        \* profile selected in the combo box while the interlock was
                        \* idle, and neither Stop nor Go was clicked since
    firstKeyAt          \* history: when the accession and the sample entry last
                        \* came to hold one character (None: emptied since)

vars == <<debug, loaderEnabled, m1Enabled, m2Enabled, timer, timerActive,
          cboxCurrent, operVar, accessionVar, accessionConfVar, sampleVar,
          sampleConfVar, entryState, arrivalTime, logFile, traceText, wire,
          inWaiting, committed, editPending, goSeconds, ticksSinceGo,
          goUndisturbed, firstKeyAt>>

linkVars    == <<logFile, traceText, wire>>
uiVars      == <<loaderEnabled, m1Enabled, m2Enabled>>
timerVars   == <<timer, timerActive>>
fieldVars   == <<operVar, accessionVar, accessionConfVar, sampleVar, sampleConfVar>>
loginVars   == <<operVar, accessionVar, accessionConfVar, sampleVar, sampleConfVar,
                 entryState, arrivalTime>>
historyVars == <<committed, editPending, goSeconds, ticksSinceGo, goUndisturbed,
                 firstKeyAt>>

-----------------------------------------------------------------------------
(* Bounds of the model *)

MaxLog       == 2   \* a handler that logs runs while the log holds fewer lines
MaxInWaiting == 2   \* bytes that may wait in the serial input buffer
MaxStamp     == 1   \* datetime.now() reads 0..MaxStamp
MaxGaps      == 1   \* timeit.default_timer() reads k * ScanWindowMs, k in 0..MaxGaps
MaxSeconds   == 1   \* the longest profile "time"

(* Program constants *)

TicksPerSecond == 10    \* btnGo_click: int( time ) * 10
ScanWindowMs   == 250   \* _HandleAccession, _HandleSample: < 0.25 (seconds)
barcodeLen     == 2     \* int( arduinoCmds["barcodeLen"] )

-----------------------------------------------------------------------------
(* Python helpers *)

None      == <<>>
Some(v)   == <<v>>
IsNone(x) == x = <<>>
Val(x)    == x[1]

\* seq[i] with Python's indexing: 0-based, negative i counts from the end
PyIndex(seq, i) == IF i >= 0 THEN seq[i + 1] ELSE seq[Len(seq) + i + 1]

-----------------------------------------------------------------------------
(* The two json files read at startup *)

\* psdCommands: arduinoCmds[motor][direction][action], arduinoCmds["loadcmds"][name]
arduinoCmds ==
    [ m1 |-> [ forward |-> [ jogstart |-> "a", jogstop |-> "b" ],
               reverse |-> [ jogstart |-> "c", jogstop |-> "d" ] ],
      m2 |-> [ forward |-> [ jogstart |-> "e", jogstop |-> "f" ],
               reverse |-> [ jogstart |-> "g", jogstop |-> "h" ] ],
      loadcmds |-> [ status |-> "status", stop |-> "stop",
                     findneedle |-> "findneedle", go |-> "go" ] ]

\* psdProfiles["profile"]: label, optional m1 and m2 commands, optional time
profiles ==
    << [ label |-> "short", m1 |-> Some("FWD_SHORT"), m2 |-> None,
         time |-> Some(MaxSeconds) ],
       [ label |-> "idle",  m1 |-> None, m2 |-> None, time |-> None ],
       [ label |-> "both",  m1 |-> Some("FWD"), m2 |-> Some("RVS"),
         time |-> Some(0) ] >>

\* LoaderControl.__init__: the combo box holds the labels, in file order
cboxValues == [ i \in 1..Len(profiles) |-> profiles[i].label ]

\* [ p for p in profiles if p["label"] == selectedLabel ][0]
selectedProfile(current) ==
    LET selectedLabel == PyIndex(cboxValues, current)
        first == CHOOSE i \in 1..Len(profiles) :
                    /\ profiles[i].label = selectedLabel
                    /\ \A j \in 1..(i - 1) : profiles[j].label # selectedLabel
    IN  profiles[first]

-----------------------------------------------------------------------------
(* Inputs *)

Motors     == {"m1", "m2"}
Directions == {"forward", "reverse"}
JogActions == {"jogstart", "jogstop"}

OperValues          == {"", "Jo"}
AccessionValues     == {"", "A", "A9"}
AccessionConfValues == {"", "A9", "A8"}
SampleValues        == {"", "S", "S1"}
SampleConfValues    == {"", "S1", "S2"}
DeviceBytes         == {"k", "\n"}

Stamps        == 0..MaxStamp
TimerReadings == { k * ScanWindowMs : k \in 0..MaxGaps }

EntryNames == {"oper", "accession", "accessionConf", "sample", "sampleConf"}

-----------------------------------------------------------------------------
(* The log file, line by line.  A print of timestamp and text makes one     *)
(* line, of stamp Some( datetime.now() ) and the text after it; a line      *)
(* break inside the text ends that line and starts one without timestamp    *)
(* (stamp None).                                                            *)

\* the last value datetime.now() returned: the clock does not run backwards
RECURSIVE LastStamp(_)
LastStamp(log) ==
    IF log = <<>> THEN 0
    ELSE IF ~IsNone(log[Len(log)].stamp) THEN Val(log[Len(log)].stamp)
    ELSE LastStamp(SubSeq(log, 1, Len(log) - 1))

\* ''.join of a sequence of characters
RECURSIVE Str(_)
Str(bytes) == IF bytes = <<>> THEN "" ELSE Head(bytes) \o Str(Tail(bytes))

\* the characters before the first line break
RECURSIVE FirstLine(_)
FirstLine(bytes) ==
    IF bytes = <<>> \/ Head(bytes) = "\n" THEN <<>>
    ELSE <<Head(bytes)>> \o FirstLine(Tail(bytes))

\* the lines a text makes when printed: one more than its line breaks
RECURSIVE TextLines(_)
TextLines(bytes) ==
    LET first == FirstLine(bytes)
    IN  IF Len(first) = Len(bytes) THEN <<Str(first)>>
        ELSE <<Str(first)>> \o TextLines(SubSeq(bytes, Len(first) + 2, Len(bytes)))

\* with open( logFileName, 'a' ) as logFile: print >>logFile, logEntry
AppendLine(log, t, text) == Append(log, [stamp |-> Some(t), text |-> text])

\* Tick: print >>logFile, timestamp + " " + arduinoStr
AppendBytes(log, t, bytes) ==
    LET lines == TextLines(bytes)
    IN  AppendLine(log, t, " " \o lines[1])
           \o [ i \in 1..(Len(lines) - 1) |-> [stamp |-> None, text |-> lines[i + 1]] ]

\* a line is kept free for the bytes a Tick has still to log
Reserved == IF inWaiting = <<>> THEN 0 ELSE 1

\* a handler about to print n lines runs while the log holds fewer than MaxLog
\* lines (the last handler may print more than one)
LogRoom(n) == n > 0 => Len(logFile) + 1 + Reserved <= MaxLog

-----------------------------------------------------------------------------
(* ArduinoLink *)

\* mutant: the terminator is left off the frame
Frame_NoTerminator(cmd) == cmd

\* Send: the frame written to the serial port
Frame(cmd) == cmd \o "="

\* Send: the line printed to the log file, after the timestamp
SendLogText(cmd) == " " \o cmd

\* mutant: a command is traced with the prefix of the arduino's bytes
SendTraceText_InboundPrefix(cmd) == "<<<" \o cmd \o "\n"

\* Send: the text inserted into the trace window
SendTraceText(cmd) == ">>>" \o cmd \o "\n"

\* Tick: the text inserted into the trace window for bytes read
TickTraceText(arduinoStr) == "<<<" \o arduinoStr \o "\n"

\* Send( cmd ) applied to the link l = [logFile, traceText, wire], with
\* datetime.now() = t
Send(l, cmd, t) ==
    [ logFile   |-> AppendLine(l.logFile, t, SendLogText(cmd)),
      traceText |-> Append(l.traceText, SendTraceText(cmd)),
      wire      |-> IF debug = FALSE THEN Append(l.wire, Frame(cmd)) ELSE l.wire ]

Link == [ logFile |-> logFile, traceText |-> traceText, wire |-> wire ]

SetLink(l) ==
    /\ logFile'   = l.logFile
    /\ traceText' = l.traceText
    /\ wire'      = l.wire

\* a button that only calls Send( cmd )
SendOnly(cmd) ==
    /\ LogRoom(1)
    /\ \E t \in Stamps :
        /\ t >= LastStamp(logFile)
        /\ SetLink(Send(Link, cmd, t))
    /\ UNCHANGED <<debug, uiVars, timerVars, cboxCurrent, loginVars, inWaiting,
                   historyVars>>

DisableUiControls ==
    /\ loaderEnabled' = FALSE
    /\ m1Enabled'     = FALSE
    /\ m2Enabled'     = FALSE

\* mutant: the second motor's controls are not enabled
EnableUiControls_SkipsM2 ==
    /\ loaderEnabled' = TRUE
    /\ m1Enabled'     = TRUE
    /\ m2Enabled'     = m2Enabled

EnableUiControls ==
    /\ loaderEnabled' = TRUE
    /\ m1Enabled'     = TRUE
    /\ m2Enabled'     = TRUE

\* mutant: the countdown ends below zero, one Tick late
TimerExpires_BelowZero == timer - 1 < 0

\* Tick, second half: the idle event timer
TimerExpires == timer - 1 <= 0

\* mutant: Tick polls the serial port and leaves the idle event timer alone
Tick_NoCountdown ==
    /\ IF debug = FALSE /\ Len(inWaiting) > 0
       THEN \E t \in Stamps :
              /\ t >= LastStamp(logFile)
              /\ traceText' = Append(traceText, TickTraceText(Str(inWaiting)))
              /\ logFile'   = AppendBytes(logFile, t, inWaiting)
              /\ inWaiting' = <<>>
       ELSE UNCHANGED <<traceText, logFile, inWaiting>>
    /\ UNCHANGED <<timer, timerActive, uiVars, ticksSinceGo>>
    /\ UNCHANGED <<debug, cboxCurrent, loginVars, wire, committed, editPending,
                   goSeconds, goUndisturbed, firstKeyAt>>

\* Tick: poll the serial port, then count the idle event timer down
Tick ==
    /\ IF debug = FALSE /\ Len(inWaiting) > 0
       THEN \E t \in Stamps :
              /\ t >= LastStamp(logFile)
              /\ traceText' = Append(traceText, TickTraceText(Str(inWaiting)))
              /\ logFile'   = AppendBytes(logFile, t, inWaiting)
              /\ inWaiting' = <<>>
       ELSE UNCHANGED <<traceText, logFile, inWaiting>>
    /\ IF timerActive
       THEN /\ timer' = timer - 1
            /\ ticksSinceGo' = ticksSinceGo + 1
            /\ IF TimerExpires
               THEN EnableUiControls /\ timerActive' = FALSE /\ goUndisturbed' = FALSE
               ELSE UNCHANGED <<uiVars, timerActive, goUndisturbed>>
       ELSE UNCHANGED <<timer, timerActive, uiVars, ticksSinceGo, goUndisturbed>>
    /\ UNCHANGED <<debug, cboxCurrent, loginVars, wire, committed, editPending,
                   goSeconds, firstKeyAt>>

\* mutant: a countdown that is running is not replaced
SetTimer_OnlyWhenIdle(duration) ==
    /\ DisableUiControls
    /\ timer'       = IF timerActive THEN timer ELSE duration
    /\ timerActive' = TRUE

\* SetTimer( duration ): the three controls are registered from BuildUI on
SetTimer(duration) ==
    /\ DisableUiControls
    /\ timer'       = duration
    /\ timerActive' = TRUE

\* the arduino writes one byte to the serial line
DeviceWrite ==
    /\ debug = FALSE
    /\ Len(inWaiting) < MaxInWaiting
    /\ Len(logFile) + 1 <= MaxLog
    /\ \E b \in DeviceBytes : inWaiting' = Append(inWaiting, b)
    /\ UNCHANGED <<debug, uiVars, timerVars, cboxCurrent, loginVars, linkVars,
                   historyVars>>

-----------------------------------------------------------------------------
(* AppControl *)

\* mutant: Stop also ends the countdown
onStopButtonClick_EndsCountdown ==
    /\ LogRoom(1)
    /\ \E t \in Stamps :
        /\ t >= LastStamp(logFile)
        /\ SetLink(Send(Link, arduinoCmds["loadcmds"]["stop"], t))
    /\ EnableUiControls
    /\ timerActive' = FALSE
    /\ goUndisturbed' = FALSE
    /\ UNCHANGED <<debug, timer, cboxCurrent, loginVars, inWaiting, committed,
                   editPending, goSeconds, ticksSinceGo, firstKeyAt>>

onStopButtonClick ==
    /\ LogRoom(1)
    /\ \E t \in Stamps :
        /\ t >= LastStamp(logFile)
        /\ SetLink(Send(Link, arduinoCmds["loadcmds"]["stop"], t))
    /\ EnableUiControls
    /\ goUndisturbed' = FALSE
    /\ UNCHANGED <<debug, timerVars, cboxCurrent, loginVars, inWaiting, committed,
                   editPending, goSeconds, ticksSinceGo, firstKeyAt>>

-----------------------------------------------------------------------------
(* LoaderControl: its buttons and combo box answer only while enabled *)

onFindNeedleButtonClick ==
    /\ loaderEnabled
    /\ SendOnly(arduinoCmds["loadcmds"]["findneedle"])

onStatusButtonClick ==
    /\ loaderEnabled
    /\ SendOnly(arduinoCmds["loadcmds"]["status"])

\* the user sets the combo box.  Enable configures every child 'normal', the
\* combo box among them, which ends the 'readonly' of __init__: whenever the
\* group is enabled the box takes a list item (current() is its index) or a
\* typed text that is no label (current() is -1)
SelectProfile ==
    /\ loaderEnabled
    /\ \E i \in -1..(Len(profiles) - 1) :
        /\ i # cboxCurrent
        /\ cboxCurrent' = i
    /\ UNCHANGED <<debug, uiVars, timerVars, loginVars, linkVars, inWaiting,
                   historyVars>>

btnGo_click ==
    /\ loaderEnabled
    /\ LET p == selectedProfile(cboxCurrent)
       IN  IF ~IsNone(p.time)
           THEN /\ SetTimer(Val(p.time) * TicksPerSecond)
                /\ goSeconds'     = Val(p.time)
                /\ ticksSinceGo'  = 0
                /\ goUndisturbed' = (~timerActive /\ cboxCurrent > -1)
           ELSE /\ goUndisturbed' = FALSE
                /\ UNCHANGED <<uiVars, timerVars, goSeconds, ticksSinceGo>>
    /\ UNCHANGED <<debug, cboxCurrent, loginVars, linkVars, inWaiting, committed,
                   editPending, firstKeyAt>>

\* mutant: the m2 command is sent before the m1 command
LoadCmds_M2First(current) ==
    IF current > -1
    THEN LET p == selectedProfile(current)
         IN  (IF ~IsNone(p.m2) THEN <<Val(p.m2)>> ELSE <<>>)
             \o (IF ~IsNone(p.m1) THEN <<Val(p.m1)>> ELSE <<>>)
    ELSE <<>>

\* the commands btnLoad_click sends, in order
LoadCmds(current) ==
    IF current > -1
    THEN LET p == selectedProfile(current)
         IN  (IF ~IsNone(p.m1) THEN <<Val(p.m1)>> ELSE <<>>)
             \o (IF ~IsNone(p.m2) THEN <<Val(p.m2)>> ELSE <<>>)
    ELSE <<>>

btnLoad_click ==
    /\ loaderEnabled
    /\ LET cmds == LoadCmds(cboxCurrent)
       IN  /\ LogRoom(Len(cmds))
           /\ \E t1 \in Stamps, t2 \in Stamps :
                /\ LastStamp(logFile) <= t1
                /\ t1 <= t2
                /\ Len(cmds) < 2 => t2 = t1
                /\ Len(cmds) < 1 => t1 = LastStamp(logFile)
                /\ LET l1 == IF Len(cmds) >= 1 THEN Send(Link, cmds[1], t1) ELSE Link
                       l2 == IF Len(cmds) >= 2 THEN Send(l1, cmds[2], t2) ELSE l1
                   IN  SetLink(l2)
    /\ UNCHANGED <<debug, uiVars, timerVars, cboxCurrent, loginVars, inWaiting,
                   historyVars>>

-----------------------------------------------------------------------------
(* MotorControl: the four jog buttons of each motor *)

MotorEnabled(m) == IF m = "m1" THEN m1Enabled ELSE m2Enabled

JogButtonClick ==
    \E m \in Motors, d \in Directions, a \in JogActions :
        /\ MotorEnabled(m)
        /\ SendOnly(arduinoCmds[m][d][a])

-----------------------------------------------------------------------------
(* TraceControl *)

TraceClearButtonClick ==
    /\ traceText # <<>>
    /\ traceText' = <<>>
    /\ UNCHANGED <<debug, uiVars, timerVars, cboxCurrent, loginVars, logFile, wire,
                   inWaiting, historyVars>>

-----------------------------------------------------------------------------
(* LoginControl *)

AllEntries(state) == [ e \in EntryNames |-> state ]

NoArrivals == [ i \in 1..barcodeLen |-> None ]

NoKeys == [ accession |-> None, sample |-> None ]

\* timeit.default_timer() does not run backwards: a reading is no earlier than
\* the readings taken before
TimerReads(t) ==
    /\ t \in TimerReadings
    /\ \A i \in 1..barcodeLen : ~IsNone(arrivalTime[i]) => Val(arrivalTime[i]) <= t
    /\ \A e \in DOMAIN firstKeyAt : ~IsNone(firstKeyAt[e]) => Val(firstKeyAt[e]) <= t

\* history: the entry e holds str, written at time t
KeyAt(e, str, t) ==
    IF Len(str) = 1 THEN [ firstKeyAt EXCEPT ![e] = Some(t) ]
    ELSE IF str = "" THEN [ firstKeyAt EXCEPT ![e] = None ]
    ELSE firstKeyAt

\* _HandleAccession, _HandleSample: _arrivalTime after the variable was written
\* with str at time t (the list built for arrivalIndex == 0 is a local, dropped)
Arrivals(arr, str, t) ==
    LET arrivalIndex == Len(str) - 1
    IN  IF arrivalIndex >= 0 /\ arrivalIndex < barcodeLen
        THEN [ arr EXCEPT ![arrivalIndex + 1] = Some(t) ]
        ELSE arr

\* the comparison that decides a scanner was used
WithinWindow(last, first) == last - first < ScanWindowMs

\* _HandleAccession, _HandleSample: the confirmation variable is set from the
\* variable written.  None - float raises TypeError and the callback ends.
ScannerUsed(arr, str) ==
    LET arrivalIndex == Len(str) - 1
    IN  /\ arrivalIndex = barcodeLen - 1
        /\ ~IsNone(arr[barcodeLen])
        /\ ~IsNone(arr[1])
        /\ WithinWindow(Val(arr[barcodeLen]), Val(arr[1]))

\* the user edits the operator entry (no trace on _operVar)
WriteOper ==
    /\ entryState["oper"] = "normal"
    /\ \E str \in OperValues :
        /\ str # operVar
        /\ operVar' = str
    /\ UNCHANGED <<debug, uiVars, timerVars, cboxCurrent, accessionVar,
                   accessionConfVar, sampleVar, sampleConfVar, entryState,
                   arrivalTime, linkVars, inWaiting, historyVars>>

\* the user edits the accession entry: _accessionVar is written, _HandleAccession runs
WriteAccessionAt(str, t) ==
    /\ entryState["accession"] = "normal"
    /\ str # accessionVar
    /\ TimerReads(t)
    /\ accessionVar' = str
    /\ arrivalTime'  = Arrivals(arrivalTime, str, t)
    /\ accessionConfVar' = IF ScannerUsed(Arrivals(arrivalTime, str, t), str)
                           THEN str
                           ELSE accessionConfVar
    /\ firstKeyAt' = KeyAt("accession", str, t)
    /\ UNCHANGED <<debug, uiVars, timerVars, cboxCurrent, operVar, sampleVar,
                   sampleConfVar, entryState, linkVars, inWaiting, committed,
                   editPending, goSeconds, ticksSinceGo, goUndisturbed>>

WriteAccession ==
    \E str \in AccessionValues, t \in TimerReadings : WriteAccessionAt(str, t)

\* the user edits the accession confirmation entry: _HandleAccessionConf passes
WriteAccessionConf ==
    /\ entryState["accessionConf"] = "normal"
    /\ \E str \in AccessionConfValues :
        /\ str # accessionConfVar
        /\ accessionConfVar' = str
    /\ UNCHANGED <<debug, uiVars, timerVars, cboxCurrent, operVar, accessionVar,
                   sampleVar, sampleConfVar, entryState, arrivalTime, linkVars,
                   inWaiting, historyVars>>

\* the user edits the sample entry: _sampleVar is written, _HandleSample runs
WriteSampleAt(str, t) ==
    /\ entryState["sample"] = "normal"
    /\ str # sampleVar
    /\ TimerReads(t)
    /\ sampleVar'   = str
    /\ arrivalTime' = Arrivals(arrivalTime, str, t)
    /\ sampleConfVar' = IF ScannerUsed(Arrivals(arrivalTime, str, t), str)
                        THEN str
                        ELSE sampleConfVar
    /\ firstKeyAt' = KeyAt("sample", str, t)
    /\ UNCHANGED <<debug, uiVars, timerVars, cboxCurrent, operVar, accessionVar,
                   accessionConfVar, entryState, linkVars, inWaiting, committed,
                   editPending, goSeconds, ticksSinceGo, goUndisturbed>>

WriteSample ==
    \E str \in SampleValues, t \in TimerReadings : WriteSampleAt(str, t)

\* the user edits the sample confirmation entry: _HandleSampleConf passes
WriteSampleConf ==
    /\ entryState["sampleConf"] = "normal"
    /\ \E str \in SampleConfValues :
        /\ str # sampleConfVar
        /\ sampleConfVar' = str
    /\ UNCHANGED <<debug, uiVars, timerVars, cboxCurrent, operVar, accessionVar,
                   accessionConfVar, sampleVar, entryState, arrivalTime, linkVars,
                   inWaiting, historyVars>>

\* mutant: the sample id and the accession id change places
SessionLogText_Swapped(operatorStr, sampleStr, accessionStr) ==
    " operator=" \o operatorStr \o " sample=" \o accessionStr
        \o " accession=" \o sampleStr

\* LogSessionInfo: the line printed to the log file, after the timestamp
SessionLogText(operatorStr, sampleStr, accessionStr) ==
    " operator=" \o operatorStr \o " sample=" \o sampleStr
        \o " accession=" \o accessionStr

\* mutant: the accession confirmation is not compared
SaveAccepts_NoAccessionConf(operatorStr, accessionStr, accessionConfStr, sampleStr, sampleConfStr) ==
    ~ \/ operatorStr = ""
      \/ accessionStr = ""
      \/ sampleStr = ""
      \/ sampleStr # sampleConfStr

\* onSaveButtonClick: the negation of the condition of its early return
SaveAccepts(operatorStr, accessionStr, accessionConfStr, sampleStr, sampleConfStr) ==
    ~ \/ operatorStr = ""
      \/ accessionStr = ""
      \/ accessionStr # accessionConfStr
      \/ sampleStr = ""
      \/ sampleStr # sampleConfStr

onSaveButtonClick ==
    /\ IF SaveAccepts(operVar, accessionVar, accessionConfVar, sampleVar, sampleConfVar)
       THEN /\ LogRoom(1)
            /\ \E t \in Stamps :
                /\ t >= LastStamp(logFile)
                /\ logFile' = AppendLine(logFile, t,
                                  SessionLogText(operVar, sampleVar, accessionVar))
            /\ EnableUiControls
            /\ entryState'  = AllEntries("disable")
            /\ committed'   = TRUE
            /\ editPending' = FALSE
       ELSE /\ DisableUiControls
            /\ committed' = FALSE
            /\ UNCHANGED <<logFile, entryState, editPending>>
    /\ UNCHANGED <<debug, timerVars, cboxCurrent, fieldVars, arrivalTime, traceText,
                   wire, inWaiting, goSeconds, ticksSinceGo, goUndisturbed,
                   firstKeyAt>>

\* mutant: the operator entry is left as it was
onEditButtonClick_KeepsOperEntry ==
    /\ arrivalTime' = NoArrivals
    /\ DisableUiControls
    /\ entryState'  = [ AllEntries("normal") EXCEPT !["oper"] = entryState["oper"] ]
    /\ committed'   = FALSE
    /\ editPending' = TRUE
    /\ UNCHANGED <<debug, timerVars, cboxCurrent, fieldVars, linkVars, inWaiting,
                   goSeconds, ticksSinceGo, goUndisturbed, firstKeyAt>>

onEditButtonClick ==
    /\ arrivalTime' = NoArrivals
    /\ DisableUiControls
    /\ entryState'  = AllEntries("normal")
    /\ committed'   = FALSE
    /\ editPending' = TRUE
    /\ UNCHANGED <<debug, timerVars, cboxCurrent, fieldVars, linkVars, inWaiting,
                   goSeconds, ticksSinceGo, goUndisturbed, firstKeyAt>>

\* mutant: the operator is not cleared
onClearButtonClick_KeepsOper ==
    /\ arrivalTime' = NoArrivals
    /\ sampleVar'   = ""
    /\ sampleConfVar' = ""
    /\ accessionVar'  = ""
    /\ accessionConfVar' = ""
    /\ DisableUiControls
    /\ entryState' = AllEntries("normal")
    /\ committed'  = FALSE
    /\ firstKeyAt' = NoKeys
    /\ UNCHANGED <<debug, timerVars, cboxCurrent, operVar, linkVars, inWaiting,
                   editPending, goSeconds, ticksSinceGo, goUndisturbed>>

\* the five set( "" ) run the handlers with arrivalIndex = -1: they do nothing
onClearButtonClick ==
    /\ arrivalTime' = NoArrivals
    /\ sampleVar'   = ""
    /\ sampleConfVar' = ""
    /\ accessionVar'  = ""
    /\ accessionConfVar' = ""
    /\ operVar' = ""
    /\ DisableUiControls
    /\ entryState' = AllEntries("normal")
    /\ committed'  = FALSE
    /\ firstKeyAt' = NoKeys
    /\ UNCHANGED <<debug, timerVars, cboxCurrent, linkVars, inWaiting, editPending,
                   goSeconds, ticksSinceGo, goUndisturbed>>

-----------------------------------------------------------------------------
(* BuildUI: the state when mainloop starts *)

Init ==
    /\ debug \in BOOLEAN
    /\ loaderEnabled = FALSE
    /\ m1Enabled = FALSE
    /\ m2Enabled = FALSE
    /\ timer = 0
    /\ timerActive = FALSE
    /\ cboxCurrent = 0
    /\ operVar = ""
    /\ accessionVar = ""
    /\ accessionConfVar = ""
    /\ sampleVar = ""
    /\ sampleConfVar = ""
    /\ entryState = AllEntries("normal")
    /\ arrivalTime = NoArrivals
    /\ logFile = <<>>
    /\ traceText = <<>>
    /\ wire = <<>>
    /\ inWaiting = <<>>
    /\ committed = FALSE
    /\ editPending = FALSE
    /\ goSeconds = 0
    /\ ticksSinceGo = 0
    /\ goUndisturbed = FALSE
    /\ firstKeyAt = NoKeys

Next ==
    \/ Tick
    \/ DeviceWrite
    \/ onStopButtonClick
    \/ onFindNeedleButtonClick
    \/ onStatusButtonClick
    \/ SelectProfile
    \/ btnGo_click
    \/ btnLoad_click
    \/ JogButtonClick
    \/ TraceClearButtonClick
    \/ WriteOper
    \/ WriteAccession
    \/ WriteAccessionConf
    \/ WriteSample
    \/ WriteSampleConf
    \/ onSaveButtonClick
    \/ onEditButtonClick
    \/ onClearButtonClick

Spec == Init /\ [][Next]_vars

-----------------------------------------------------------------------------------------------------------------------------------------------------
(* Spec is the whole program.  Its four parts below are the ones explored   *)
(* exhaustively:                                                            *)
(*   SpecLogin      LoginControl alone: the five entries, Save, Edit, Clear;*)
(*   SpecInterlock  every button, while the arduino writes nothing;         *)
(*   SpecLink       every button but Go, while the arduino writes;          *)
(*   SpecScheduled  Tick under its scheduler, with Stop, Go, Load, Save,    *)
(*                  Edit and Clear.                                         *)
(* Typing into the entries writes neither the link nor the timer, so the    *)
(* last three start at startup or after the operator has typed a session    *)
(* and clicked Edit.                                                        *)

NextLogin ==
    \/ WriteOper
    \/ WriteAccession
    \/ WriteAccessionConf
    \/ WriteSample
    \/ WriteSampleConf
    \/ onSaveButtonClick
    \/ onEditButtonClick
    \/ onClearButtonClick

SpecLogin == Init /\ [][NextLogin]_vars

\* sessions the operator may have typed: one that passes Save, one whose
\* accession confirmation differs, one without operator
TypedSessions ==
    { [ oper |-> "Jo", accession |-> "A9", accessionConf |-> "A9",
        sample |-> "S1", sampleConf |-> "S1" ],
      [ oper |-> "Jo", accession |-> "A9", accessionConf |-> "A8",
        sample |-> "S1", sampleConf |-> "S1" ],
      [ oper |-> "", accession |-> "A9", accessionConf |-> "A9",
        sample |-> "S1", sampleConf |-> "S1" ] }

\* startup, the entries typed, then onEditButtonClick
InitEdited ==
    /\ debug \in BOOLEAN
    /\ loaderEnabled = FALSE
    /\ m1Enabled = FALSE
    /\ m2Enabled = FALSE
    /\ timer = 0
    /\ timerActive = FALSE
    /\ cboxCurrent = 0
    /\ \E s \in TypedSessions :
        /\ operVar = s.oper
        /\ accessionVar = s.accession
        /\ accessionConfVar = s.accessionConf
        /\ sampleVar = s.sample
        /\ sampleConfVar = s.sampleConf
    /\ entryState = AllEntries("normal")
    /\ arrivalTime = NoArrivals
    /\ logFile = <<>>
    /\ traceText = <<>>
    /\ wire = <<>>
    /\ inWaiting = <<>>
    /\ committed = FALSE
    /\ editPending = TRUE
    /\ goSeconds = 0
    /\ ticksSinceGo = 0
    /\ goUndisturbed = FALSE
    /\ firstKeyAt = [ accession |-> Some(0), sample |-> Some(0) ]

InitPanel == Init \/ InitEdited

NextInterlock ==
    \/ Tick
    \/ onStopButtonClick
    \/ onFindNeedleButtonClick
    \/ onStatusButtonClick
    \/ SelectProfile
    \/ btnGo_click
    \/ btnLoad_click
    \/ JogButtonClick
    \/ TraceClearButtonClick
    \/ onSaveButtonClick
    \/ onEditButtonClick
    \/ onClearButtonClick

SpecInterlock == InitPanel /\ [][NextInterlock]_vars

NextLink ==
    \/ Tick
    \/ DeviceWrite
    \/ onStopButtonClick
    \/ onFindNeedleButtonClick
    \/ onStatusButtonClick
    \/ SelectProfile
    \/ btnLoad_click
    \/ JogButtonClick
    \/ TraceClearButtonClick
    \/ onSaveButtonClick
    \/ onEditButtonClick
    \/ onClearButtonClick

SpecLink == InitPanel /\ [][NextLink]_vars

\* the interlock under its scheduler: Tick re-arms itself with
\* self._root.after( 100, self.Tick ) at its end, so a Tick that is due is
\* taken; Stop, Go, Load, Save, Edit and Clear may be clicked at any time
NextScheduled ==
    \/ Tick
    \/ onStopButtonClick
    \/ SelectProfile
    \/ btnGo_click
    \/ btnLoad_click
    \/ onSaveButtonClick
    \/ onEditButtonClick
    \/ onClearButtonClick

SpecScheduled == InitPanel /\ [][NextScheduled]_vars /\ WF_vars(Tick)

-----
(* Vocabulary of the claims *)

AllEnabled  == loaderEnabled /\ m1Enabled /\ m2Enabled
AllDisabled == ~loaderEnabled /\ ~m1Enabled /\ ~m2Enabled
AnyEnabled  == loaderEnabled \/ m1Enabled \/ m2Enabled

\* the session gate's condition, as the specification words it
SessionMatches ==
    /\ operVar # ""
    /\ sampleVar # "" /\ sampleVar = sampleConfVar
    /\ accessionVar # "" /\ accessionVar = accessionConfVar

AllFieldsEmpty ==
    /\ operVar = ""
    /\ sampleVar = "" /\ sampleConfVar = ""
    /\ accessionVar = "" /\ accessionConfVar = ""

LogTexts(log) == [ i \in 1..Len(log) |-> log[i].text ]

\* this step made the calls Send( cmds[1] ), Send( cmds[2] ), ... and wrote
\* nothing else to the wire, the trace window or the log file
Sent(cmds) ==
    /\ wire' = IF debug
               THEN wire
               ELSE wire \o [ i \in 1..Len(cmds) |-> cmds[i] \o "=" ]
    /\ traceText' = traceText \o [ i \in 1..Len(cmds) |-> ">>>" \o cmds[i] \o "\n" ]
    /\ Len(logFile') = Len(logFile) + Len(cmds)
    /\ SubSeq(logFile', 1, Len(logFile)) = logFile
    /\ \A i \in 1..Len(cmds) : logFile'[Len(logFile) + i].text = " " \o cmds[i]

\* every command string of psdCommands and psdProfiles
AllCommands ==
    { arduinoCmds[m][d][a] : m \in Motors, d \in Directions, a \in JogActions }
    \cup { arduinoCmds["loadcmds"][n] : n \in {"status", "stop", "findneedle", "go"} }
    \cup { Val(profiles[i].m1) : i \in { j \in 1..Len(profiles) : ~IsNone(profiles[j].m1) } }
    \cup { Val(profiles[i].m2) : i \in { j \in 1..Len(profiles) : ~IsNone(profiles[j].m2) } }

-----------------------------------------------------------------------------
(* C1: session gating.  In every reachable state the loader, motor-1 and    *)
(* motor-2 control groups are enabled only if the session is committed      *)
(* (the most recent of Save/Edit/Clear was a Save that passed the check).   *)
(* The code breaks it: onStopButtonClick enables the three groups whatever  *)
(* the session is.                                                          *)
C1_GatedControls == AnyEnabled => committed

-----------------------------------------------------------------------------
(* C2: Save succeeds, enabling the three control groups, if and only if     *)
(* operator is non-empty, sample is non-empty and equal to its              *)
(* confirmation, and accession is non-empty and equal to its confirmation;  *)
(* every other Save is rejected and leaves the three groups disabled.       *)
C2_SaveIffMatches ==
    [][ onSaveButtonClick =>
          IF SessionMatches
          THEN AllEnabled' /\ committed'
          ELSE AllDisabled' /\ ~committed' ]_vars

\* a Save that passed
C2_Witness_Accepted ==
    /\ committed /\ AllEnabled
    /\ operVar = "Jo" /\ accessionVar = "A9" /\ sampleVar = "S1"

-----------------------------------------------------------------------------
(* C3: while the interlock is busy (_timerActive) the three control groups  *)
(* are all disabled.  The code breaks it: Stop (and a Save that passes)     *)
(* enable the groups and leave _timerActive set.                            *)
C3_BusyMeansDisabled == timerActive => AllDisabled

-----------------------------------------------------------------------------
(* C4: Go clicked while the interlock is idle, on a selected profile of d   *)
(* whole seconds, turns it busy; with no Stop and no Go clicked since, the  *)
(* Tick that ends the countdown and re-enables the controls is exactly the  *)
(* (10 * d)-th after that Go, and no earlier Tick ends it or touches the    *)
(* controls.  It fails for d = 0, where the first Tick ends it.  Amended:   *)
(* under the same conditions the Tick is the (10 * d)-th for d >= 1 and the *)
(* first for d = 0.  Ticks are counted from the Go that started the         *)
(* countdown; a countdown that Stop or a second Go has met is left out, as  *)
(* the claim leaves it out.                                                 *)
TickEndsCountdownAt(n) ==
    /\ ( /\ btnGo_click /\ ~timerActive
         /\ cboxCurrent \in 0..(Len(profiles) - 1)
         /\ ~IsNone(profiles[cboxCurrent + 1].time) )
          => /\ timerActive' /\ AllDisabled' /\ goUndisturbed'
             /\ timer' = TicksPerSecond * Val(profiles[cboxCurrent + 1].time)
             /\ goSeconds' = Val(profiles[cboxCurrent + 1].time)
             /\ ticksSinceGo' = 0
    /\ Tick /\ timerActive /\ goUndisturbed =>
          IF ticksSinceGo + 1 = n
          THEN ~timerActive' /\ AllEnabled'
          ELSE /\ ticksSinceGo + 1 < n
               /\ timerActive'
               /\ UNCHANGED uiVars

\* C4 as claimed: the countdown of d seconds ends on the (10 * d)-th Tick
C4_Original_TenTimesD ==
    [][ TickEndsCountdownAt(TicksPerSecond * goSeconds) ]_vars

\* C4 amended: it ends on the (10 * d)-th Tick for d >= 1, on the first for d = 0
C4_ExactTicks ==
    [][ TickEndsCountdownAt(IF goSeconds = 0 THEN 1 ELSE TicksPerSecond * goSeconds) ]_vars

\* a countdown of a profile of at least one second has run out on its
\* (10 * d)-th Tick, undisturbed: the log holds the record of the one Save
\* that enabled Go and nothing else, so no Stop was sent, and the controls,
\* disabled by that Go, allowed no second Go before the end
C4_Witness_Expired ==
    /\ goSeconds >= 1
    /\ ticksSinceGo = TicksPerSecond * goSeconds
    /\ ~timerActive /\ AllEnabled
    /\ LogTexts(logFile) = <<" operator=Jo sample=S1 accession=A9">>

\* the same countdown one Tick before its end: nine Ticks have left it busy
\* and the controls disabled
C4_Witness_LastTickDue ==
    /\ goUndisturbed /\ timerActive /\ AllDisabled
    /\ goSeconds >= 1
    /\ ticksSinceGo = TicksPerSecond * goSeconds - 1
    /\ timer = 1

-----------------------------------------------------------------------------
(* C5: Stop clicked while the interlock is busy sends stop, re-enables the  *)
(* three groups and leaves the interlock idle (_timerActive cleared).  The  *)
(* code breaks it: onStopButtonClick never touches _timerActive.            *)
C5_StopClearsBusy ==
    [][ onStopButtonClick /\ timerActive => ~timerActive' /\ AllEnabled' ]_vars

-----------------------------------------------------------------------------
(* C6: _timer and _timerActive are changed by Go (SetTimer) and by Tick     *)
(* alone; Stop, Load, Status, Find Needle, the jog buttons, Save, Edit,     *)
(* Clear and the trace's Clear leave both as they were.                     *)
C6_OnlyGoAndTickSetTimer ==
    [][ (timer' # timer \/ timerActive' # timerActive) => (btnGo_click \/ Tick) ]_vars

\* Stop was sent while busy, and the interlock is still busy
C6_Witness_StopWhileBusy ==
    /\ timerActive /\ timer > 0 /\ AllEnabled
    /\ \E i \in 1..Len(logFile) : logFile[i].text = " stop"

-----------------------------------------------------------------------------
(* C7: Stop while the interlock is idle leaves it idle, with _timer as it   *)
(* was, however often it is repeated; each such Stop adds exactly one       *)
(* outbound trace record and one log line.                                  *)
C7_StopWhileIdle ==
    [][ onStopButtonClick /\ ~timerActive =>
          /\ ~timerActive' /\ timer' = timer
          /\ traceText' = Append(traceText, ">>>stop\n")
          /\ Len(logFile') = Len(logFile) + 1
          /\ SubSeq(logFile', 1, Len(logFile)) = logFile
          /\ logFile'[Len(logFile')].text = " stop" ]_vars

\* Stop clicked twice while idle
C7_Witness_StopTwice ==
    /\ ~timerActive /\ ticksSinceGo = 0
    /\ LogTexts(logFile) = <<" stop", " stop">>
    /\ traceText = <<">>>stop\n", ">>>stop\n">>

-----------------------------------------------------------------------------
(* C8: one Send( C ) writes the one frame C followed by '=' to the serial   *)
(* port (not in debug mode), inserts the one trace record '>>>' C and       *)
(* appends the one log line of payload C; frames go on the wire in the      *)
(* order of the calls, and nothing but a Send writes to the wire.           *)
C8_SendFraming ==
    [][ /\ onStopButtonClick => Sent(<<arduinoCmds["loadcmds"]["stop"]>>)
        /\ onFindNeedleButtonClick => Sent(<<arduinoCmds["loadcmds"]["findneedle"]>>)
        /\ onStatusButtonClick => Sent(<<arduinoCmds["loadcmds"]["status"]>>)
        /\ \A m \in Motors, d \in Directions, a \in JogActions :
              MotorEnabled(m) /\ SendOnly(arduinoCmds[m][d][a])
                 => Sent(<<arduinoCmds[m][d][a]>>)
        /\ btnLoad_click => Sent(LoadCmds(cboxCurrent))
        /\ wire' # wire =>
              \/ onStopButtonClick
              \/ onFindNeedleButtonClick
              \/ onStatusButtonClick
              \/ JogButtonClick
              \/ btnLoad_click ]_vars

\* two Sends in a row, not in debug mode
C8_Witness_TwoFrames ==
    /\ debug = FALSE
    /\ wire = <<"stop=", "status=">>
    /\ traceText = <<">>>stop\n", ">>>status\n">>
    /\ LogTexts(logFile) = <<" stop", " status">>

-----------------------------------------------------------------------------
(* C9: after Edit the three control groups stay disabled until the next     *)
(* Save that passes, whatever happens in between.  The code breaks it:      *)
(* Stop, and the Tick that ends a countdown, enable them.                   *)
C9_EditKeepsDisabled == editPending => AllDisabled

-----------------------------------------------------------------------------
(* C10: Clear empties the five session fields, disables the three control   *)
(* groups and makes the five entries editable; a Save that follows it at    *)
(* once is rejected.                                                        *)
C10_ClearResets ==
    [][ /\ onClearButtonClick =>
              /\ AllFieldsEmpty'
              /\ AllDisabled'
              /\ \A e \in EntryNames : entryState'[e] = "normal"
              /\ ~committed'
        /\ onSaveButtonClick /\ AllFieldsEmpty =>
              /\ AllDisabled' /\ ~committed'
              /\ logFile' = logFile
              /\ entryState' = entryState ]_vars

\* Clear clicked on a committed session
C10_Witness_ClearedAfterSave ==
    /\ AllFieldsEmpty /\ AllDisabled /\ ~committed /\ ~editPending
    /\ Len(logFile) = 1
    /\ \A e \in EntryNames : entryState[e] = "normal"

-----------------------------------------------------------------------------
(* C11: clicking Go sends the go command: exactly one outbound frame        *)
(* carrying arduinoCmds["loadcmds"]["go"].  The code breaks it: btnGo_click *)
(* calls SetTimer at most and never calls Send.                             *)
C11_GoSendsGo ==
    [][ btnGo_click => Sent(<<arduinoCmds["loadcmds"]["go"]>>) ]_vars

-----------------------------------------------------------------------------
(* C12: Load on the selected profile sends one command per motor command    *)
(* that is present and none for an absent one: m1 alone is one frame, m1    *)
(* and m2 are two frames in the order m1, m2, neither is no frame at all;   *)
(* Load changes neither _timer, _timerActive nor the state of any of the    *)
(* three control groups.  A profile is selected while the combo box holds   *)
(* one of its labels; the claim is silent on a Load while it holds another  *)
(* text, which sends nothing.                                               *)
C12_LoadSendsPresent ==
    [][ btnLoad_click =>
          /\ cboxCurrent \in 0..(Len(profiles) - 1) =>
                LET p == profiles[cboxCurrent + 1]
                IN  /\ ~IsNone(p.m1) /\ IsNone(p.m2)  => Sent(<<Val(p.m1)>>)
                    /\ ~IsNone(p.m1) /\ ~IsNone(p.m2) => Sent(<<Val(p.m1), Val(p.m2)>>)
                    /\ IsNone(p.m1) /\ ~IsNone(p.m2)  => Sent(<<Val(p.m2)>>)
                    /\ IsNone(p.m1) /\ IsNone(p.m2)   => Sent(<<>>)
          /\ UNCHANGED <<timerVars, uiVars>> ]_vars

\* Load clicked once on the profile that has both commands, not in debug mode
C12_Witness_BothLoaded ==
    /\ debug = FALSE
    /\ cboxCurrent > -1 /\ profiles[cboxCurrent + 1].label = "both"
    /\ wire = <<"FWD=", "RVS=">>
    /\ traceText = <<">>>FWD\n", ">>>RVS\n">>
    /\ Len(logFile) = 3
    /\ SubSeq(LogTexts(logFile), 2, 3) = <<" FWD", " RVS">>

-----------------------------------------------------------------------------
(* C13: a session record (operator, sample id, accession id) is appended to *)
(* the log on, and only on, a Save that passes: each such Save appends      *)
(* exactly one line carrying the values that passed the check, and a        *)
(* rejected Save, Edit, Clear or an edit of a field writes nothing to the   *)
(* log, the trace window or the serial port.                                *)
C13_RecordOnlyOnSave ==
    [][ IF onSaveButtonClick /\ SessionMatches
        THEN /\ Len(logFile') = Len(logFile) + 1
             /\ SubSeq(logFile', 1, Len(logFile)) = logFile
             /\ logFile'[Len(logFile')].text =
                   " operator=" \o operVar \o " sample=" \o sampleVar
                       \o " accession=" \o accessionVar
             /\ UNCHANGED <<traceText, wire>>
        ELSE UNCHANGED <<logFile, traceText, wire>> ]_vars

\* one Save has passed; after it Edit was clicked and a field changed
C13_Witness_OneRecord ==
    /\ LogTexts(logFile) = <<" operator=Jo sample=S1 accession=A9">>
    /\ editPending
    /\ accessionVar = "A"

-----------------------------------------------------------------------------
(* C14: the log is append-only and ordered by event.  Every Send, every     *)
(* Tick that reads bytes and every Save that passes appends exactly one     *)
(* line, nothing else appends, no line already there is changed or removed, *)
(* and the lines are prefixed with strictly increasing timestamps.  The     *)
(* code breaks it: Tick prints the bytes read as they are, so a line break  *)
(* among them adds a line without timestamp; and two lines may carry the    *)
(* same datetime.now().                                                     *)
C14_LogAppendOnly ==
    [][ /\ Len(logFile') >= Len(logFile)
        /\ SubSeq(logFile', 1, Len(logFile)) = logFile
        /\ Len(logFile') # Len(logFile) =>
              \/ onStopButtonClick
              \/ onFindNeedleButtonClick
              \/ onStatusButtonClick
              \/ JogButtonClick
              \/ btnLoad_click
              \/ Tick /\ debug = FALSE /\ inWaiting # <<>>
              \/ onSaveButtonClick /\ SessionMatches
        /\ \/ onStopButtonClick
           \/ onFindNeedleButtonClick
           \/ onStatusButtonClick
           \/ JogButtonClick
           \/ Tick /\ debug = FALSE /\ inWaiting # <<>>
           \/ onSaveButtonClick /\ SessionMatches
           => Len(logFile') = Len(logFile) + 1
        /\ btnLoad_click /\ cboxCurrent \in 0..(Len(profiles) - 1) =>
              LET p == profiles[cboxCurrent + 1]
              IN  Len(logFile') = Len(logFile) + (IF IsNone(p.m1) THEN 0 ELSE 1)
                                               + (IF IsNone(p.m2) THEN 0 ELSE 1)
        /\ \A i \in 1..Len(logFile') : ~IsNone(logFile'[i].stamp)
        /\ \A i \in 1..(Len(logFile') - 1) :
              Val(logFile'[i].stamp) < Val(logFile'[i + 1].stamp) ]_vars

-----------------------------------------------------------------------------
(* C15: polling neither loses, duplicates nor reorders the arduino's bytes. *)
(* A Tick, not in debug mode, that finds k > 0 bytes waiting consumes       *)
(* exactly those and emits them as one trace record '<<<' and one log line; *)
(* a Tick that finds none reads, shows and logs nothing; no byte stays      *)
(* behind for the next Tick.  The code breaks the one log line: a line      *)
(* break among the bytes is printed as it is (the defect of C14).           *)
C15_PollingKeepsBytes ==
    [][ Tick /\ debug = FALSE =>
          IF inWaiting # <<>>
          THEN /\ inWaiting' = <<>>
               /\ traceText' = Append(traceText, "<<<" \o Str(inWaiting) \o "\n")
               /\ Len(logFile') = Len(logFile) + 1
               /\ SubSeq(logFile', 1, Len(logFile)) = logFile
               /\ logFile'[Len(logFile')].text = " " \o Str(inWaiting)
          ELSE UNCHANGED <<inWaiting, traceText, logFile>> ]_vars

-----------------------------------------------------------------------------
(* C16: the scanner heuristic, for the accession and the sample entry, with *)
(* barcode length n and the entry's keystrokes arriving at t0..t(n-1) in    *)
(* milliseconds: when the entry reaches n characters its confirmation is    *)
(* set to its value if t(n-1) - t0 < 250 and is left as it was otherwise;   *)
(* the heuristic enables no control, and no Save passes with a confirmation *)
(* that differs from its entry.  The code breaks the first part: both       *)
(* entries time their keystrokes in the one list _arrivalTime, which is     *)
(* never reset on a first character, so t0 may be a keystroke of the other  *)
(* entry.                                                                   *)
C16_ScannerHeuristic ==
    [][ /\ \A str \in AccessionValues, t \in TimerReadings :
              /\ WriteAccessionAt(str, t)
              /\ Len(str) = barcodeLen /\ Len(accessionVar) = barcodeLen - 1
              /\ ~IsNone(firstKeyAt["accession"])
              => accessionConfVar' =
                    IF t - Val(firstKeyAt["accession"]) < ScanWindowMs
                    THEN str ELSE accessionConfVar
        /\ \A str \in SampleValues, t \in TimerReadings :
              /\ WriteSampleAt(str, t)
              /\ Len(str) = barcodeLen /\ Len(sampleVar) = barcodeLen - 1
              /\ ~IsNone(firstKeyAt["sample"])
              => sampleConfVar' =
                    IF t - Val(firstKeyAt["sample"]) < ScanWindowMs
                    THEN str ELSE sampleConfVar
        /\ WriteAccession \/ WriteSample => UNCHANGED uiVars
        /\ onSaveButtonClick /\ committed' =>
              accessionConfVar = accessionVar /\ sampleConfVar = sampleVar ]_vars

-----------------------------------------------------------------------------
(* C17: the countdown's end is atomic.  The Tick that brings _timer to zero *)
(* clears _timerActive and enables the three control groups in that same    *)
(* Tick, so no state between events has _timerActive with _timer <= 0;      *)
(* while busy with _timer = n > 1 a Tick takes exactly one off _timer and   *)
(* changes nothing else of the interlock; while idle a Tick leaves _timer   *)
(* and the controls as they are.  It fails after Go on a profile of 0       *)
(* seconds: SetTimer( 0 ) leaves _timerActive set with _timer = 0 until the *)
(* next Tick.  Amended: _timerActive with _timer <= 0 is seen only there,   *)
(* and the next Tick ends the countdown.                                    *)
TickCountsDown ==
    /\ Tick /\ timerActive /\ timer <= 1 =>
          ~timerActive' /\ AllEnabled' /\ timer' = timer - 1
    /\ Tick /\ timerActive /\ timer > 1 =>
          timer' = timer - 1 /\ timerActive' /\ UNCHANGED uiVars
    /\ Tick /\ ~timerActive => UNCHANGED <<timerVars, uiVars>>

\* C17 as claimed: never _timerActive with _timer <= 0
C17_Original_NeverBusyAtZero ==
    [][ TickCountsDown /\ ~(timerActive' /\ timer' <= 0) ]_vars

\* C17 amended: _timerActive with _timer <= 0 only between SetTimer( 0 ) and
\* the next Tick
C17_AtomicExpiry ==
    [][ /\ TickCountsDown
        /\ timerActive' /\ timer' <= 0 =>
              timer' = 0 /\ goSeconds' = 0 /\ ticksSinceGo' = 0 ]_vars

\* a countdown has run down to zero, Tick by Tick, while an edit was pending
C17_Witness_RanDown ==
    /\ ~timerActive /\ timer = 0 /\ AllEnabled
    /\ ticksSinceGo >= TicksPerSecond
    /\ editPending

-----------------------------------------------------------------------------
(* C18: the interlock turns busy only by Go on a profile whose time is      *)
(* known.  Go on a profile whose time is None leaves _timerActive, _timer   *)
(* and the state of every control as they were; Go on a profile of d        *)
(* seconds sets _timer to 10 * d, sets _timerActive and disables the three  *)
(* groups; Go clicked while busy replaces what is left of the countdown     *)
(* with the 10 * d of the profile selected.  The profile Go takes is the    *)
(* one btnGo_click looks up: the one selected or, while the combo box holds *)
(* a text that is no label, the last of the table.                          *)
C18_GoStartsCountdown ==
    [][ /\ btnGo_click =>
              LET p == selectedProfile(cboxCurrent)
              IN  IF IsNone(p.time)
                  THEN UNCHANGED <<timerVars, uiVars>>
                  ELSE /\ timer' = TicksPerSecond * Val(p.time)
                       /\ timerActive'
                       /\ AllDisabled'
        /\ ~timerActive /\ timerActive' =>
              btnGo_click /\ ~IsNone(selectedProfile(cboxCurrent).time) ]_vars

\* Go clicked right after a Stop, on a committed session and a profile of at
\* least a second: the countdown is whole and the controls are disabled
C18_Witness_Restarted ==
    /\ timerActive /\ AllDisabled
    /\ goSeconds >= 1 /\ timer = TicksPerSecond * goSeconds /\ ticksSinceGo = 0
    /\ logFile # <<>> /\ logFile[Len(logFile)].text = " stop"
    /\ committed

-----------------------------------------------------------------------------
(* C19: the interlock does not stay busy for ever on its own.  Every Tick   *)
(* re-arms the next one, so with Ticks taken when due, and Go not clicked   *)
(* infinitely often, every busy state is followed by an idle state with the *)
(* three control groups enabled.                                            *)
C19_BusyEnds ==
    <>[][~btnGo_click]_vars => (timerActive ~> (~timerActive /\ AllEnabled))

\* busy, with Ticks counted and more to come
C19_Witness_CountingDown ==
    /\ timerActive /\ AllDisabled
    /\ ticksSinceGo > 0 /\ timer > 0

-----------------------------------------------------------------------------
(* C20: the five session entries are locked exactly while the session is    *)
(* committed: in every state they are read-only if and only if the last of  *)
(* Save/Edit/Clear was a Save that passed.  A rejected Save changes neither *)
(* the five values nor the state of the entries, nor does Stop, Go, Load or *)
(* Tick, so that committed values are not altered by typing before Edit or  *)
(* Clear is clicked.                                                        *)
EntriesLocked   == \A e \in EntryNames : entryState[e] = "disable"
EntriesEditable == \A e \in EntryNames : entryState[e] = "normal"

Typing ==
    WriteOper \/ WriteAccession \/ WriteAccessionConf \/ WriteSample \/ WriteSampleConf

C20_LockedIffCommitted ==
    [][ /\ IF committed THEN EntriesLocked ELSE EntriesEditable
        /\ IF committed' THEN EntriesLocked' ELSE EntriesEditable'
        /\ committed => ~ENABLED Typing
        /\ committed /\ committed' => UNCHANGED fieldVars
        /\ onSaveButtonClick /\ ~SessionMatches => UNCHANGED <<fieldVars, entryState>>
        /\ onStopButtonClick \/ btnGo_click \/ btnLoad_click \/ Tick
              => UNCHANGED <<fieldVars, entryState>> ]_vars

\* Save clicked twice on the same session: both passed
C20_Witness_SavedTwice ==
    /\ committed /\ EntriesLocked
    /\ LogTexts(logFile) = << " operator=Jo sample=S1 accession=A9",
                              " operator=Jo sample=S1 accession=A9" >>

-----------------------------------------------------------------------------
(* C21: the loader, motor-1 and motor-2 control groups change together: in  *)
(* every state between events the three are all enabled or all disabled,    *)
(* since startup, Save, Edit, Clear, Stop, SetTimer and the Tick that ends  *)
(* a countdown each put the three into the same state.                      *)
C21_GroupsTogether == loaderEnabled = m1Enabled /\ m1Enabled = m2Enabled

\* Save enabled the groups, Go disabled them, then Clear was clicked while
\* the countdown ran
C21_Witness_ClearedWhileBusy ==
    /\ AllDisabled /\ timerActive /\ AllFieldsEmpty
    /\ LogTexts(logFile) = <<" operator=Jo sample=S1 accession=A9">>

====
